---- MODULE Spec2Model ----
(***************************************************************************)
(* Model of @truelist/nextjs: the server helper (validateEmail /           *)
(* createEmailValidator), the Route Handler helpers (validateFormSubmission*)
(* / createValidationHandler, built on verifyInline and extractEmail) and  *)
(* the Zod refinement (truelistEmail).                                     *)
(*                                                                         *)
(* Optional JavaScript values (undefined / null or a value) are encoded as *)
(* sequences: <<>> is undefined/null, <<v>> is the value v.                *)
(* Strings that the code inspects with startsWith / includes are sequences *)
(* of string pieces.                                                       *)
(* One action covers one turn of the JavaScript event loop: an event and   *)
(* the synchronous continuation that runs up to the next await.            *)
(***************************************************************************)
EXTENDS Integers, Sequences, FiniteSets, TLC

VARIABLES env, kind, config, rejectedStates, created, inv, calls

vars == <<env, kind, config, rejectedStates, created, inv, calls>>

\* ---------------------------------------------------------------- bounds
\* number of invocations started in one behaviour
MaxCalls == 2

\* ------------------------------------------------------- program constants
DEFAULT_TIMEOUT_MS == 10000
DEFAULT_FIELD_NAME == "email"
DEFAULT_REJECT_STATES == <<"email_invalid">>
SERVER_DEFAULT_REJECT_STATES == <<"email_invalid">>
ZOD_DEFAULT_REJECT_STATES == <<"invalid">>

\* ------------------------------------------------------------ value sets
None == <<>>
Some(v) == <<v>>

\* a ?? b
Coalesce(opt, default) == IF opt = None THEN default ELSE opt[1]

\* new Set(array)
ToSet(seq) == {seq[k] : k \in DOMAIN seq}

Kinds == {"validateEmail", "validateFormSubmission", "handler", "truelistEmail",
          "withEmailValidation"}

\* ValidationState of the truelist SDK
ValidationStates == {"ok", "email_invalid", "risky", "unknown", "accept_all"}
SubStates == {"email_ok", "is_disposable", "failed_no_mailbox"}
Suggestions == {None, Some("user@gmail.com")}

\* process.env.TRUELIST_API_KEY: unset, empty, or a key
EnvValues == {None, Some(""), Some("sk_env")}
ApiKeyOptions == {None, Some(""), Some("sk_cfg")}
RejectStatesOptions == {None, Some(<<>>), Some(<<"email_invalid", "risky">>)}
TimeoutOptions == {None, Some(5000)}
FieldNameOptions == {None, Some("contact")}
PathsOptions == { << <<"/contact">>, <<"/api", "/signup">> >> }

Pathnames == { <<"/api", "/signup">>, <<"/api", "/signup", "/confirm">>,
               <<"/api">>, <<"/other">> }
Methods == {"POST", "GET"}
ContentTypes == { None,
                  Some(<<"application/json">>),
                  Some(<<"application/json", "; charset=utf-8">>),
                  Some(<<"multipart/form-data", "; boundary=x">>),
                  Some(<<"application/x-www-form-urlencoded">>),
                  Some(<<"text/plain">>) }

\* JavaScript values found at a field of a parsed body
Undefined == [t |-> "undefined", v |-> ""]
Str(s) == [t |-> "string", v |-> s]
Num == [t |-> "number", v |-> "42"]
File == [t |-> "file", v |-> "blob"]

FieldNames == {"email", "contact"}
NoFields == [f \in FieldNames |-> Undefined]
Fields(e, c) == [f \in FieldNames |-> IF f = "email" THEN e ELSE c]

\* request bodies: fmt is what the raw bytes are, fields the parsed content
Body(fmt, fields) == [fmt |-> fmt, fields |-> fields]
Bodies ==
    { Body("malformed", NoFields),
      Body("json-null", NoFields),
      Body("json-number", NoFields),
      Body("json-object", Fields(Str("a@b.co"), Undefined)),
      Body("json-object", Fields(Num, Str("c@d.co"))),
      Body("json-object", Fields(Str(""), Undefined)),
      Body("urlencoded", Fields(Str("a@b.co"), Undefined)),
      Body("multipart", Fields(File, Str("c@d.co"))) }

Emails == {"a@b.co", "c@d.co", ""}

NoRequest == [pathname |-> <<>>, method |-> "", contentType |-> None,
              body |-> Body("none", NoFields)]
Requests == [pathname : Pathnames, method : Methods,
             contentType : ContentTypes, body : Bodies]

\* the fields of a ValidationResult that the adapters read
Result(s, ss, sg) == [state |-> s, subState |-> ss, suggestion |-> sg]
Results == [state : {Some(s) : s \in ValidationStates},
            subState : SubStates, suggestion : Suggestions]
NoResult == [state |-> None, subState |-> "", suggestion |-> None]

\* errors, by class
MissingApiKey == "Error: Truelist API key is required"
AuthenticationError == "AuthenticationError"
ApiError == "Error: Truelist API error"
NetworkError == "TypeError: fetch failed"
AbortError == "AbortError"
SyntaxError == "SyntaxError"
TypeError == "TypeError"

\* ------------------------------------------------------------ credentials
\* !key for an optional string: undefined and "" are falsy
Falsy(opt) == opt = None \/ opt[1] = ""

Thrown(e) == [ok |-> FALSE, key |-> "", err |-> e]
Key(k) == [ok |-> TRUE, key |-> k, err |-> ""]

\* variant: an empty configured key falls back to the environment variable
GetApiKey_OrFallback(configApiKey, e) ==
    LET key == IF Falsy(configApiKey) THEN e ELSE configApiKey
    IN  IF Falsy(key) THEN Thrown(MissingApiKey) ELSE Key(key[1])

\* getApiKey of the Route Handler module
GetApiKey(configApiKey, e) ==
    LET key == IF configApiKey = None THEN e ELSE configApiKey
    IN  IF Falsy(key) THEN Thrown(MissingApiKey) ELSE Key(key[1])

\* variant: the environment variable wins over the configured key
ServerGetApiKey_EnvFirst(cfg, e) ==
    LET key == IF e = None THEN cfg.apiKey ELSE e
    IN  IF Falsy(key) THEN Thrown(MissingApiKey) ELSE Key(key[1])

\* getApiKey of the server module
ServerGetApiKey(cfg, e) ==
    LET key == IF cfg.apiKey = None THEN e ELSE cfg.apiKey
    IN  IF Falsy(key) THEN Thrown(MissingApiKey) ELSE Key(key[1])

\* variant: the refinement goes on with whatever key it found
ZodGetApiKey_Unchecked(configApiKey, e) ==
    LET apiKey == IF configApiKey = None THEN e ELSE configApiKey
    IN  Key(Coalesce(apiKey, ""))

\* the key check at the head of the truelistEmail refinement
ZodGetApiKey(configApiKey, e) ==
    LET apiKey == IF configApiKey = None THEN e ELSE configApiKey
    IN  IF Falsy(apiKey) THEN Thrown(MissingApiKey) ELSE Key(apiKey[1])

\* -------------------------------------------------------------- extraction
\* String.prototype.startsWith / includes on strings made of pieces
StartsWith(s, p) == Len(p) <= Len(s) /\ SubSeq(s, 1, Len(p)) = p
Includes(s, piece) == \E k \in DOMAIN s : s[k] = piece

\* paths.some((path) => pathname.startsWith(path))
PathMatches(paths, pathname) ==
    \E k \in DOMAIN paths : StartsWith(pathname, paths[k])

IsJsonType(ct) == Includes(ct, "application/json")
IsFormType(ct) == Includes(ct, "multipart/form-data")
                  \/ Includes(ct, "application/x-www-form-urlencoded")

\* does extractEmail read the body of this request at all
ReadsBody(request) ==
    LET contentType == Coalesce(request.contentType, <<>>)
    IN  IsJsonType(contentType) \/ IsFormType(contentType)

\* variant: any value that is present is taken as the email
StringOrNull_AnyValue(value) ==
    IF value.t = "undefined" THEN None ELSE Some(value.v)

\* typeof value === "string" ? value : null
StringOrNull(value) == IF value.t = "string" THEN Some(value.v) ELSE None

\* the application/json branch: request.json() throws on bytes that are not
\* JSON, body[fieldName] throws on null; both are caught and give null
ExtractJson(body, fieldName) ==
    IF body.fmt \notin {"json-object", "json-null", "json-number"} THEN None
    ELSE IF body.fmt = "json-null" THEN None
    ELSE IF body.fmt = "json-number" THEN StringOrNull(Undefined)
    ELSE StringOrNull(body.fields[fieldName])

\* the form branch: request.formData() throws on bytes that are not a
\* multipart body; a url-encoded parse of other bytes has no such field
ExtractForm(contentType, body, fieldName) ==
    IF Includes(contentType, "multipart/form-data")
    THEN IF body.fmt = "multipart"
         THEN StringOrNull(body.fields[fieldName]) ELSE None
    ELSE IF body.fmt = "urlencoded"
         THEN StringOrNull(body.fields[fieldName]) ELSE None

ExtractEmail(request, fieldName) ==
    LET contentType == Coalesce(request.contentType, <<>>)
    IN  IF IsJsonType(contentType) THEN ExtractJson(request.body, fieldName)
        ELSE IF IsFormType(contentType)
             THEN ExtractForm(contentType, request.body, fieldName)
        ELSE None

\* ------------------------------------------------------------ verifyInline
\* HTTP statuses the remote service answers with
Statuses == {200, 401, 403, 429, 500}
ResponseOk(status) == status >= 200 /\ status <= 299

\* bodies of a 2xx answer of verify_inline
Payload(shape, entry) == [shape |-> shape, entry |-> entry]
Payloads ==
    { Payload("not-json", NoResult), Payload("json-null", NoResult),
      Payload("no-emails", NoResult), Payload("empty-emails", NoResult) }
    \cup { Payload("entry", r) : r \in Results }
    \cup { Payload("entry", [r EXCEPT !.state = None]) :
             r \in {Result(Some("ok"), "email_ok", None)} }

Resolved(r) == [ok |-> TRUE, result |-> r, err |-> ""]
Rejected(e) == [ok |-> FALSE, result |-> NoResult, err |-> e]

\* response.json(), data.emails[0] and the re-mapping of the entry
ParseVerifyInline(payload) ==
    IF payload.shape = "not-json" THEN Rejected(SyntaxError)
    ELSE IF payload.shape \in {"json-null", "no-emails", "empty-emails"}
         THEN Rejected(TypeError)
    ELSE Resolved(Result(payload.entry.state, payload.entry.subState,
                         payload.entry.suggestion))

\* the branch on !response.ok
StatusError(status) ==
    IF status = 401 THEN AuthenticationError ELSE ApiError

\* Set.prototype.has on a state that may be undefined
Has(set, state) == state # None /\ state[1] \in set

\* ------------------------------------------------------------- outcomes
Pending == [tag |-> "pending", val |-> [type |-> "none"], err |-> ""]
Return(v) == [tag |-> "return", val |-> v, err |-> ""]
Throw(e) == [tag |-> "throw", val |-> [type |-> "none"], err |-> e]

NullVal == [type |-> "null"]
BoolVal(b) == [type |-> "boolean", b |-> b]
ResultVal(r) == [type |-> "ValidationResult", result |-> r]
\* variant: the suggestion is left out of the details
DenyResponse_DropsSuggestion(r) ==
    [type |-> "NextResponse", status |-> 422,
     body |-> [error |-> "Invalid email",
               details |-> [state |-> r.state, subState |-> r.subState,
                            suggestion |-> None]]]

\* NextResponse.json(errorBody, { status: 422 })
DenyResponse(r) ==
    [type |-> "NextResponse", status |-> 422,
     body |-> [error |-> "Invalid email",
               details |-> [state |-> r.state, subState |-> r.subState,
                            suggestion |-> r.suggestion]]]

\* error instanceof AuthenticationError
IsAuthenticationError(e) == e = AuthenticationError

\* variant: a disposable address is denied whatever its state
HandlerDecide_SubStateGate(result, rejected) ==
    IF Has(rejected, result.state) \/ result.subState = "is_disposable"
    THEN Return(DenyResponse(result))
    ELSE Return(NullVal)

\* createValidationHandler: the code after verifyInline has returned
HandlerDecide(result, rejected) ==
    IF Has(rejected, result.state) THEN Return(DenyResponse(result))
    ELSE Return(NullVal)

\* variant: the catch clause tolerates every error
HandlerCatch_FailOpenAll(e) == Return(NullVal)

\* variant: the catch clause re-raises every error
HandlerCatch_RethrowAll(e) == Throw(e)

\* createValidationHandler: the catch clause
HandlerCatch(e) ==
    IF IsAuthenticationError(e) THEN Throw(e) ELSE Return(NullVal)

\* variant: the test of the state is not negated
ZodDecide_NotNegated(result, rejected) ==
    Return(BoolVal(Has(rejected, result.state)))

\* truelistEmail: return !rejectedStates.has(result.state)
ZodDecide(result, rejected) == Return(BoolVal(~Has(rejected, result.state)))

\* variant: the catch clause fails closed
ZodCatch_FailClosed(e) ==
    IF IsAuthenticationError(e) THEN Throw(e) ELSE Return(BoolVal(FALSE))

\* truelistEmail: the catch clause
ZodCatch(e) ==
    IF IsAuthenticationError(e) THEN Throw(e) ELSE Return(BoolVal(TRUE))

\* variant: validateEmail swallows what is not an authentication failure
ValidateEmailRejects_FailOpen(e) ==
    IF IsAuthenticationError(e) THEN Throw(e) ELSE Return(NullVal)

\* validateEmail: client.email.validate is awaited outside any try block
ValidateEmailRejects(e) == Throw(e)

\* variant: isValid is state === "ok", rejectStates is not consulted
EmailValidationResult_OkOnly(result, cfg) ==
    [type |-> "EmailValidationResult",
     state |-> result.state,
     subState |-> result.subState,
     suggestion |-> result.suggestion,
     isValid |-> result.state = Some("ok"),
     isInvalid |-> result.state = Some("email_invalid"),
     isDisposable |-> result.subState = "is_disposable",
     isRole |-> result.subState = "is_role"]

\* validateEmail: the returned EmailValidationResult
EmailValidationResult(result, cfg) ==
    LET rejectStates ==
            ToSet(Coalesce(cfg.rejectStates, SERVER_DEFAULT_REJECT_STATES))
    IN  [type |-> "EmailValidationResult",
         state |-> result.state,
         subState |-> result.subState,
         suggestion |-> result.suggestion,
         isValid |-> ~Has(rejectStates, result.state),
         isInvalid |-> result.state = Some("email_invalid"),
         isDisposable |-> result.subState = "is_disposable",
         isRole |-> result.subState = "is_role"]

\* ------------------------------------------------------------------ state
\* env            process.env.TRUELIST_API_KEY
\* kind           which entry point the configured instance is
\* config         the config / options object it was created with
\* rejectedStates the Set built when the instance was created (handler, zod)
\* created        history: config.rejectStates as it was at creation
\* inv            the invocations, each an async call frame
\* calls          number of invocations started

Config(paths, fieldName, rejectStates, apiKey, timeout) ==
    [paths |-> paths, fieldName |-> fieldName, rejectStates |-> rejectStates,
     apiKey |-> apiKey, timeout |-> timeout]

\* EmailValidationMiddlewareConfig of withEmailValidation
RejectInvalidOptions == {None, Some(FALSE)}
RejectRiskyOptions == {None, Some(TRUE)}
MiddlewareConfig(paths, apiKey, rejectInvalid, rejectRisky) ==
    [paths |-> paths, fieldName |-> None, rejectStates |-> None,
     apiKey |-> apiKey, timeout |-> None,
     rejectInvalid |-> rejectInvalid, rejectRisky |-> rejectRisky]

\* the options each entry point reads
Configs(k) ==
    IF k = "handler"
    THEN { Config(p, f, r, a, t) : p \in PathsOptions, f \in FieldNameOptions,
             r \in RejectStatesOptions, a \in ApiKeyOptions,
             t \in TimeoutOptions }
    ELSE IF k = "validateFormSubmission"
    THEN { Config(<<>>, f, None, a, t) : f \in FieldNameOptions,
             a \in ApiKeyOptions, t \in TimeoutOptions }
    ELSE IF k = "withEmailValidation"
    THEN { MiddlewareConfig(p, a, ri, rr) : p \in PathsOptions,
             a \in ApiKeyOptions, ri \in RejectInvalidOptions,
             rr \in RejectRiskyOptions }
    ELSE { Config(<<>>, None, r, a, None) : r \in RejectStatesOptions,
             a \in ApiKeyOptions }

\* const rejectedStates = new Set<string>(rejectStates) at creation
CreatedRejectedStates(k, cfg) ==
    IF k = "handler"
    THEN ToSet(Coalesce(cfg.rejectStates, DEFAULT_REJECT_STATES))
    ELSE IF k = "truelistEmail"
    THEN ToSet(Coalesce(cfg.rejectStates, ZOD_DEFAULT_REJECT_STATES))
    ELSE {}

\* the invocations in flight at one time
InvIds == {"i1"}

Idle ==
    [pc |-> "idle", req |-> NoRequest, arg |-> "", apiKey |-> "",
     email |-> None, bodyUsed |-> FALSE, timer |-> "none", timerMs |-> 0,
     aborted |-> FALSE, netCalls |-> 0, status |-> 0, result |-> NoResult,
     failure |-> "", out |-> Pending, prevKey |-> ""]

\* prevKey is history: the key the invocation before this one resolved
\* ("" if it resolved none); the program does not read it
Carry(frame, i) == [frame EXCEPT !.prevKey = inv[i].prevKey]

Done(frame, outcome) == [frame EXCEPT !.pc = "done", !.out = outcome]

Init ==
    /\ env \in EnvValues
    /\ kind \in Kinds
    /\ config \in Configs(kind)
    /\ rejectedStates = CreatedRejectedStates(kind, config)
    /\ created = config.rejectStates
    /\ inv = [i \in InvIds |-> Idle]
    /\ calls = 0

\* ------------------------------------------------- the start of each entry
\* extractEmail up to its first await; a content type it does not know
\* returns null at once, and the caller passes with null
BeginExtract(frame) ==
    IF ReadsBody(frame.req)
    THEN [frame EXCEPT !.pc = "extract", !.bodyUsed = TRUE]
    ELSE Done(frame, Return(NullVal))

\* variant: the credential is resolved before the paths are looked at
HandlerStart_KeyFirst(request) ==
    LET frame == [Idle EXCEPT !.req = request]
        key == GetApiKey(config.apiKey, env)
    IN  IF ~key.ok THEN Done(frame, Throw(key.err))
        ELSE IF ~PathMatches(config.paths, request.pathname)
        THEN Done([frame EXCEPT !.apiKey = key.key], Return(NullVal))
        ELSE BeginExtract([frame EXCEPT !.apiKey = key.key])

\* the handler returned by createValidationHandler, up to the first await
HandlerStart(request) ==
    LET frame == [Idle EXCEPT !.req = request]
        key == GetApiKey(config.apiKey, env)
    IN  IF ~PathMatches(config.paths, request.pathname)
        THEN Done(frame, Return(NullVal))
        ELSE IF ~key.ok THEN Done(frame, Throw(key.err))
        ELSE BeginExtract([frame EXCEPT !.apiKey = key.key])

\* validateFormSubmission up to the first await
FormSubmissionStart(request) ==
    LET frame == [Idle EXCEPT !.req = request]
        key == GetApiKey(config.apiKey, env)
    IN  IF ~key.ok THEN Done(frame, Throw(key.err))
        ELSE BeginExtract([frame EXCEPT !.apiKey = key.key])

\* client.email.validate(email) of the truelist SDK is called
ClientValidate(frame) == [frame EXCEPT !.pc = "sdk", !.netCalls = @ + 1]

\* validateEmail up to the await of client.email.validate
ValidateEmailStart(email) ==
    LET frame == [Idle EXCEPT !.arg = email, !.email = Some(email)]
        key == ServerGetApiKey(config, env)
    IN  IF ~key.ok THEN Done(frame, Throw(key.err))
        ELSE ClientValidate([frame EXCEPT !.apiKey = key.key])

\* the truelistEmail refinement up to the await of client.email.validate
RefineStart(email) ==
    LET frame == [Idle EXCEPT !.arg = email, !.email = Some(email)]
        key == ZodGetApiKey(config.apiKey, env)
    IN  IF ~key.ok THEN Done(frame, Throw(key.err))
        ELSE ClientValidate([frame EXCEPT !.apiKey = key.key])

\* a request arrives at the Route Handler helper
CallWithRequest(i) ==
    /\ kind \in {"handler", "validateFormSubmission"}
    /\ inv[i].pc = "idle"
    /\ calls < MaxCalls
    /\ \E request \in Requests :
         inv' = [inv EXCEPT ![i] =
                   Carry(IF kind = "handler" THEN HandlerStart(request)
                         ELSE FormSubmissionStart(request), i)]
    /\ calls' = calls + 1
    /\ UNCHANGED <<env, kind, config, rejectedStates, created>>

\* validateEmail(email) or the refinement predicate is called
CallWithEmail(i) ==
    /\ kind \in {"validateEmail", "truelistEmail"}
    /\ inv[i].pc = "idle"
    /\ calls < MaxCalls
    /\ \E email \in Emails :
         inv' = [inv EXCEPT ![i] =
                   Carry(IF kind = "validateEmail"
                         THEN ValidateEmailStart(email)
                         ELSE RefineStart(email), i)]
    /\ calls' = calls + 1
    /\ UNCHANGED <<env, kind, config, rejectedStates, created>>

\* --------------------------------------------- verifyInline and its callers
\* const timeoutMs = configTimeout ?? DEFAULT_TIMEOUT_MS
TimeoutMs(cfg) == Coalesce(cfg.timeout, DEFAULT_TIMEOUT_MS)

\* const fieldName = config.fieldName ?? DEFAULT_FIELD_NAME
FieldName(cfg) == Coalesce(cfg.fieldName, DEFAULT_FIELD_NAME)

\* variant: no timer is set on the call
VerifyInlineStart_NoTimer(frame, timeoutMs) ==
    [frame EXCEPT !.pc = "fetch", !.netCalls = @ + 1]

\* verifyInline up to the await of fetch: the timer is armed, the call issued
VerifyInlineStart(frame, timeoutMs) ==
    [frame EXCEPT !.pc = "fetch", !.timer = "armed", !.timerMs = timeoutMs,
                  !.netCalls = @ + 1]

\* variant: the timer is not cleared when the call returns a result
VerifyInlineReturns_TimerLeft(frame, r) ==
    LET settled == [frame EXCEPT !.result = r]
    IN  IF kind = "handler"
        THEN Done(settled, HandlerDecide(r, rejectedStates))
        ELSE Done(settled, Return(ResultVal(r)))

\* verifyInline returns r: finally clearTimeout(timer), then the caller's code
VerifyInlineReturns(frame, r) ==
    LET settled == [frame EXCEPT !.timer = "cleared", !.result = r]
    IN  IF kind = "handler"
        THEN Done(settled, HandlerDecide(r, rejectedStates))
        ELSE Done(settled, Return(ResultVal(r)))

\* variant: a failed call is tried once more
VerifyInlineThrows_Retry(frame, e) ==
    IF frame.netCalls < 2
    THEN [frame EXCEPT !.pc = "fetch", !.timer = "armed", !.status = 0,
                       !.netCalls = @ + 1]
    ELSE LET settled == [frame EXCEPT !.timer = "cleared", !.failure = e]
         IN  IF kind = "handler"
             THEN Done(settled, HandlerCatch(e))
             ELSE Done(settled, Throw(e))

\* variant: every caller swallows a failed call and passes with null
VerifyInlineThrows_Swallowed(frame, e) ==
    LET settled == [frame EXCEPT !.timer = "cleared", !.failure = e]
    IN  Done(settled, HandlerCatch(e))

\* verifyInline throws e: finally clearTimeout(timer), then the caller's code
VerifyInlineThrows(frame, e) ==
    LET settled == [frame EXCEPT !.timer = "cleared", !.failure = e]
    IN  IF kind = "handler"
        THEN Done(settled, HandlerCatch(e))
        ELSE Done(settled, Throw(e))

\* variant: the remote call is made even when no email was found
ExtractDone_VerifyAbsent(i) ==
    /\ inv[i].pc = "extract"
    /\ LET email == ExtractEmail(inv[i].req, FieldName(config))
           frame == [inv[i] EXCEPT !.email = email]
       IN  inv' = [inv EXCEPT ![i] =
                     VerifyInlineStart(frame, TimeoutMs(config))]
    /\ UNCHANGED <<env, kind, config, rejectedStates, created, calls>>

\* request.json() / request.formData() has settled; the rest of extractEmail
\* and the caller's code up to the await of fetch
ExtractDone(i) ==
    /\ inv[i].pc = "extract"
    /\ LET email == ExtractEmail(inv[i].req, FieldName(config))
           frame == [inv[i] EXCEPT !.email = email]
       IN  inv' = [inv EXCEPT ![i] =
                     IF Falsy(email) THEN Done(frame, Return(NullVal))
                     ELSE VerifyInlineStart(frame, TimeoutMs(config))]
    /\ UNCHANGED <<env, kind, config, rejectedStates, created, calls>>

\* the response head arrives: fetch resolves
FetchResponds(i) ==
    /\ inv[i].pc = "fetch"
    /\ \E status \in Statuses :
         LET frame == [inv[i] EXCEPT !.status = status]
         IN  inv' = [inv EXCEPT ![i] =
                       IF ResponseOk(status) THEN [frame EXCEPT !.pc = "json"]
                       ELSE IF status = 401
                            THEN VerifyInlineThrows(frame, StatusError(status))
                       ELSE [frame EXCEPT !.pc = "text"]]
    /\ UNCHANGED <<env, kind, config, rejectedStates, created, calls>>

\* the connection fails: fetch rejects
FetchFails(i) ==
    /\ inv[i].pc = "fetch"
    /\ inv' = [inv EXCEPT ![i] = VerifyInlineThrows(inv[i], NetworkError)]
    /\ UNCHANGED <<env, kind, config, rejectedStates, created, calls>>

\* response.text().catch(() => "") has settled: the API error is thrown
ErrorTextDone(i) ==
    /\ inv[i].pc = "text"
    /\ inv' = [inv EXCEPT ![i] =
                 VerifyInlineThrows(inv[i], StatusError(inv[i].status))]
    /\ UNCHANGED <<env, kind, config, rejectedStates, created, calls>>

\* response.json() has settled on the body of a 2xx answer
JsonDone(i) ==
    /\ inv[i].pc = "json"
    /\ \E payload \in Payloads :
         LET parsed == ParseVerifyInline(payload)
         IN  inv' = [inv EXCEPT ![i] =
                       IF parsed.ok
                       THEN VerifyInlineReturns(inv[i], parsed.result)
                       ELSE VerifyInlineThrows(inv[i], parsed.err)]
    /\ UNCHANGED <<env, kind, config, rejectedStates, created, calls>>

\* the body of a 2xx answer breaks off while it is read
JsonFails(i) ==
    /\ inv[i].pc = "json"
    /\ inv' = [inv EXCEPT ![i] = VerifyInlineThrows(inv[i], NetworkError)]
    /\ UNCHANGED <<env, kind, config, rejectedStates, created, calls>>

\* variant: one AbortController is shared by all calls, so a timer that
\* fires aborts every call that is waiting
TimerFires_SharedController(i) ==
    /\ inv[i].timer = "armed"
    /\ inv' = [j \in DOMAIN inv |->
                 IF inv[j].timer = "armed"
                 THEN LET frame == [inv[j] EXCEPT !.aborted = TRUE]
                      IN  IF frame.pc = "text"
                          THEN VerifyInlineThrows(frame,
                                                  StatusError(frame.status))
                          ELSE VerifyInlineThrows(frame, AbortError)
                 ELSE inv[j]]
    /\ UNCHANGED <<env, kind, config, rejectedStates, created, calls>>

\* setTimeout(() => controller.abort(), timeoutMs) fires: the pending fetch
\* or body read rejects; a failed response.text() is caught and the API
\* error is thrown all the same
TimerFires(i) ==
    /\ inv[i].timer = "armed"
    /\ LET frame == [inv[i] EXCEPT !.aborted = TRUE]
       IN  inv' = [inv EXCEPT ![i] =
                     IF frame.pc = "text"
                     THEN VerifyInlineThrows(frame, StatusError(frame.status))
                     ELSE VerifyInlineThrows(frame, AbortError)]
    /\ UNCHANGED <<env, kind, config, rejectedStates, created, calls>>

\* ------------------------------------------- the SDK call and its callers
SdkErrors == {AuthenticationError, ApiError, NetworkError, AbortError}

\* client.email.validate resolves: the rest of validateEmail / the refinement
SdkResolves(i) ==
    /\ inv[i].pc = "sdk"
    /\ \E r \in Results :
         LET frame == [inv[i] EXCEPT !.result = r]
         IN  inv' = [inv EXCEPT ![i] =
                       IF kind = "validateEmail"
                       THEN Done(frame, Return(EmailValidationResult(r, config)))
                       ELSE Done(frame, ZodDecide(r, rejectedStates))]
    /\ UNCHANGED <<env, kind, config, rejectedStates, created, calls>>

\* client.email.validate rejects
SdkRejects(i) ==
    /\ inv[i].pc = "sdk"
    /\ \E e \in SdkErrors :
         LET frame == [inv[i] EXCEPT !.failure = e]
         IN  inv' = [inv EXCEPT ![i] =
                       IF kind = "validateEmail"
                       THEN Done(frame, ValidateEmailRejects(e))
                       ELSE Done(frame, ZodCatch(e))]
    /\ UNCHANGED <<env, kind, config, rejectedStates, created, calls>>


\* --------------------------------- withEmailValidation (Edge Middleware)
\* NextResponse.next()
NextVal == [type |-> "NextResponse.next"]

\* states of the form_verify endpoint
FormVerifyStates == {"valid", "invalid", "risky", "unknown"}
FormVerifyPayloads ==
    { Payload("not-json", NoResult), Payload("json-null", NoResult) }
    \cup { Payload("entry", Result(Some(st), "failed_no_mailbox", None)) :
             st \in FormVerifyStates }

\* getApiKey of the Edge Middleware module
MiddlewareGetApiKey(configApiKey, e) ==
    LET key == IF configApiKey = None THEN e ELSE configApiKey
    IN  IF Falsy(key) THEN Thrown(MissingApiKey) ELSE Key(key[1])

\* request.method !== "POST" || !pathSet.has(request.nextUrl.pathname)
MiddlewareSkips(cfg, request) ==
    request.method # "POST" \/ request.pathname \notin ToSet(cfg.paths)

\* the Set built from rejectInvalid / rejectRisky inside the try block
MiddlewareRejected(cfg) ==
    (IF Coalesce(cfg.rejectInvalid, TRUE) THEN {"invalid"} ELSE {})
    \cup (IF Coalesce(cfg.rejectRisky, FALSE) THEN {"risky"} ELSE {})

\* formVerify: every non-2xx answer throws the same generic Error
FormVerifyStatusError(status) == ApiError

\* formVerify: response.json() and the re-mapping of the answer
ParseFormVerify(payload) ==
    IF payload.shape = "not-json" THEN Rejected(SyntaxError)
    ELSE IF payload.shape = "json-null" THEN Rejected(TypeError)
    ELSE Resolved(Result(payload.entry.state, payload.entry.subState,
                         payload.entry.suggestion))

\* withEmailValidation: the code after formVerify has returned
MiddlewareDecide(result, cfg) ==
    IF Has(MiddlewareRejected(cfg), result.state)
    THEN Return(DenyResponse(result))
    ELSE Return(NextVal)

\* withEmailValidation: catch { return NextResponse.next() }
MiddlewareCatch(e) == Return(NextVal)

FormVerifyReturns(frame, r) ==
    Done([frame EXCEPT !.result = r], MiddlewareDecide(r, config))

FormVerifyThrows(frame, e) ==
    Done([frame EXCEPT !.failure = e], MiddlewareCatch(e))

\* the middleware returned by withEmailValidation, up to the first await
MiddlewareStart(request) ==
    LET frame == [Idle EXCEPT !.req = request]
        key == MiddlewareGetApiKey(config.apiKey, env)
    IN  IF MiddlewareSkips(config, request)
        THEN Done(frame, Return(NextVal))
        ELSE IF ~key.ok THEN Done(frame, Throw(key.err))
        ELSE IF ReadsBody(request)
             THEN [frame EXCEPT !.apiKey = key.key, !.pc = "mw-extract",
                                !.bodyUsed = TRUE]
             ELSE Done([frame EXCEPT !.apiKey = key.key], Return(NextVal))

\* a request arrives at the Edge Middleware
CallMiddleware(i) ==
    /\ kind = "withEmailValidation"
    /\ inv[i].pc = "idle"
    /\ calls < MaxCalls
    /\ \E request \in Requests :
         inv' = [inv EXCEPT ![i] = Carry(MiddlewareStart(request), i)]
    /\ calls' = calls + 1
    /\ UNCHANGED <<env, kind, config, rejectedStates, created>>

\* the body has been read; the rest up to the await of fetch in formVerify
MiddlewareExtractDone(i) ==
    /\ inv[i].pc = "mw-extract"
    /\ LET email == ExtractEmail(inv[i].req, FieldName(config))
           frame == [inv[i] EXCEPT !.email = email]
       IN  inv' = [inv EXCEPT ![i] =
                     IF Falsy(email) THEN Done(frame, Return(NextVal))
                     ELSE [frame EXCEPT !.pc = "mw-fetch",
                                        !.netCalls = @ + 1]]
    /\ UNCHANGED <<env, kind, config, rejectedStates, created, calls>>

\* the response head of form_verify arrives
FormVerifyResponds(i) ==
    /\ inv[i].pc = "mw-fetch"
    /\ \E status \in Statuses :
         inv' = [inv EXCEPT ![i] =
                   [@ EXCEPT !.status = status,
                             !.pc = IF ResponseOk(status) THEN "mw-json"
                                    ELSE "mw-text"]]
    /\ UNCHANGED <<env, kind, config, rejectedStates, created, calls>>

\* the connection fails while formVerify waits for the head or the body
FormVerifyFails(i) ==
    /\ inv[i].pc \in {"mw-fetch", "mw-json"}
    /\ inv' = [inv EXCEPT ![i] = FormVerifyThrows(inv[i], NetworkError)]
    /\ UNCHANGED <<env, kind, config, rejectedStates, created, calls>>

\* response.text().catch(() => "") has settled: the API error is thrown
FormVerifyTextDone(i) ==
    /\ inv[i].pc = "mw-text"
    /\ inv' = [inv EXCEPT ![i] =
                 FormVerifyThrows(inv[i], FormVerifyStatusError(inv[i].status))]
    /\ UNCHANGED <<env, kind, config, rejectedStates, created, calls>>

\* response.json() has settled on the body of a 2xx answer of form_verify
FormVerifyJsonDone(i) ==
    /\ inv[i].pc = "mw-json"
    /\ \E payload \in FormVerifyPayloads :
         LET parsed == ParseFormVerify(payload)
         IN  inv' = [inv EXCEPT ![i] =
                       IF parsed.ok
                       THEN FormVerifyReturns(inv[i], parsed.result)
                       ELSE FormVerifyThrows(inv[i], parsed.err)]
    /\ UNCHANGED <<env, kind, config, rejectedStates, created, calls>>

\* ------------------------------------------------------------ environment
\* the caller has taken the outcome; the frame is gone
Finish(i) ==
    /\ inv[i].pc = "done"
    /\ inv' = [inv EXCEPT ![i] = [Idle EXCEPT !.prevKey = inv[i].apiKey]]
    /\ UNCHANGED <<env, kind, config, rejectedStates, created, calls>>

\* the process environment is changed between invocations
SetEnv ==
    /\ \A i \in DOMAIN inv : inv[i].pc = "idle"
    /\ \E v \in EnvValues : v # env /\ env' = v
    /\ UNCHANGED <<kind, config, rejectedStates, created, inv, calls>>

\* the caller pushes a state onto the rejectStates array of the config
\* object it created the instance with
MutateConfig ==
    /\ \A i \in DOMAIN inv : inv[i].pc = "idle"
    /\ config.rejectStates # None
    /\ config.rejectStates = created
    /\ config' = [config EXCEPT
                    !.rejectStates = Some(Append(config.rejectStates[1], "ok"))]
    /\ UNCHANGED <<env, kind, rejectedStates, created, inv, calls>>

Next ==
    \/ \E i \in DOMAIN inv : CallWithRequest(i)
    \/ \E i \in DOMAIN inv : CallWithEmail(i)
    \/ \E i \in DOMAIN inv : ExtractDone(i)
    \/ \E i \in DOMAIN inv : FetchResponds(i)
    \/ \E i \in DOMAIN inv : FetchFails(i)
    \/ \E i \in DOMAIN inv : ErrorTextDone(i)
    \/ \E i \in DOMAIN inv : JsonDone(i)
    \/ \E i \in DOMAIN inv : JsonFails(i)
    \/ \E i \in DOMAIN inv : TimerFires(i)
    \/ \E i \in DOMAIN inv : SdkResolves(i)
    \/ \E i \in DOMAIN inv : SdkRejects(i)
    \/ \E i \in DOMAIN inv : CallMiddleware(i)
    \/ \E i \in DOMAIN inv : MiddlewareExtractDone(i)
    \/ \E i \in DOMAIN inv : FormVerifyResponds(i)
    \/ \E i \in DOMAIN inv : FormVerifyFails(i)
    \/ \E i \in DOMAIN inv : FormVerifyTextDone(i)
    \/ \E i \in DOMAIN inv : FormVerifyJsonDone(i)
    \/ \E i \in DOMAIN inv : Finish(i)
    \/ SetEnv
    \/ MutateConfig

Spec == Init /\ [][Next]_vars

\* ---------------------------------------- two invocations of one handler
ConcIds == {"i1", "i2"}

\* requests sent to the handler while another one is in flight
ConcRequests ==
    { [pathname |-> <<"/api", "/signup">>, method |-> "POST",
       contentType |-> Some(<<"application/json">>),
       body |-> Body("json-object", Fields(Str("a@b.co"), Undefined))],
      [pathname |-> <<"/api", "/signup", "/confirm">>, method |-> "POST",
       contentType |-> Some(<<"application/x-www-form-urlencoded">>),
       body |-> Body("urlencoded", Fields(Str("a@b.co"), Undefined))],
      [pathname |-> <<"/api", "/signup">>, method |-> "POST",
       contentType |-> Some(<<"application/json">>),
       body |-> Body("malformed", NoFields)],
      [pathname |-> <<"/other">>, method |-> "POST",
       contentType |-> Some(<<"application/json">>),
       body |-> Body("json-object", Fields(Str("a@b.co"), Undefined))] }

\* one handler with a configured key, called from two requests at a time
ConcInit ==
    /\ env = None
    /\ kind = "handler"
    /\ config \in { Config(p, None, r, Some("sk_cfg"), None) :
                      p \in PathsOptions, r \in RejectStatesOptions }
    /\ rejectedStates = CreatedRejectedStates(kind, config)
    /\ created = config.rejectStates
    /\ inv = [i \in ConcIds |-> Idle]
    /\ calls = 0

\* a request arrives at the handler
ConcCall(i) ==
    /\ inv[i].pc = "idle"
    /\ calls < MaxCalls
    /\ \E request \in ConcRequests :
         inv' = [inv EXCEPT ![i] = Carry(HandlerStart(request), i)]
    /\ calls' = calls + 1
    /\ UNCHANGED <<env, kind, config, rejectedStates, created>>

ConcNext ==
    \/ \E i \in DOMAIN inv : ConcCall(i)
    \/ \E i \in DOMAIN inv : ExtractDone(i)
    \/ \E i \in DOMAIN inv : FetchResponds(i)
    \/ \E i \in DOMAIN inv : FetchFails(i)
    \/ \E i \in DOMAIN inv : ErrorTextDone(i)
    \/ \E i \in DOMAIN inv : JsonDone(i)
    \/ \E i \in DOMAIN inv : JsonFails(i)
    \/ \E i \in DOMAIN inv : TimerFires(i)
    \/ \E i \in DOMAIN inv : Finish(i)

ConcSpec == ConcInit /\ [][ConcNext]_vars

\* a timer that is set and not cleared fires; nothing is assumed of the
\* remote service, which may stay silent for ever
FairSpec == Spec /\ WF_vars(\E i \in InvIds : TimerFires(i))

\* ------------------------------------------------------------------ claims
HandlerFrame(i) == kind = "handler" /\ inv[i].pc = "done"

\* the rejection set the documentation gives a handler: rejectStates, or
\* ["email_invalid"] when it is not configured
DocumentedRejection ==
    IF config.rejectStates = None THEN {"email_invalid"}
    ELSE ToSet(config.rejectStates[1])

\* the rejection set the instance was created with
BuiltRejection ==
    IF created = None THEN {"email_invalid"} ELSE ToSet(created[1])

\* C1: a handler whose remote call succeeded with state s returns a 422
\* response if and only if s is in the rejection set, and null otherwise,
\* whatever the subState and suggestion of the result are
C1_DenyIffStateRejected ==
    \A i \in DOMAIN inv :
        (HandlerFrame(i) /\ inv[i].result.state # None) =>
            /\ inv[i].out.tag = "return"
            /\ IF inv[i].result.state[1] \in BuiltRejection
               THEN /\ inv[i].out.val.type = "NextResponse"
                    /\ inv[i].out.val.status = 422
               ELSE inv[i].out.val = NullVal

\* C1 witness: with the default set, a disposable address with a suggestion
\* and state "risky" passes, so subState and suggestion did not gate it
C1_Witness ==
    \E i \in DOMAIN inv :
        /\ HandlerFrame(i)
        /\ config.rejectStates = None
        /\ inv[i].result = Result(Some("risky"), "is_disposable",
                                  Some("user@gmail.com"))
        /\ inv[i].out = Return(NullVal)

\* the invocation i starts in this step
Starts(i) == inv[i].pc = "idle" /\ inv'[i].pc # "idle"

\* C2: with no apiKey configured and TRUELIST_API_KEY unset, an invocation
\* (of a handler: one whose request matches the paths) ends at once by
\* raising the missing-key error, without any network call
C2_MissingKeyRaises ==
    [][\A i \in DOMAIN inv :
         ( /\ Starts(i)
           /\ kind \in {"validateEmail", "validateFormSubmission",
                        "handler", "truelistEmail"}
           /\ config.apiKey = None /\ env = None
           /\ kind = "handler" =>
                PathMatches(config.paths, inv'[i].req.pathname) )
         => /\ inv'[i].pc = "done"
            /\ inv'[i].out = Throw(MissingApiKey)
            /\ inv'[i].netCalls = 0]_vars

\* C2 witness: the fail-open refinement has raised the missing-key error
C2_Witness ==
    \E i \in DOMAIN inv :
        /\ kind = "truelistEmail" /\ inv[i].pc = "done"
        /\ config.apiKey = None /\ env = None
        /\ inv[i].out = Throw(MissingApiKey)
        /\ inv[i].netCalls = 0

\* C3: a handler whose remote call was answered with 401 ends by raising
\* AuthenticationError, never with null or a 422 response
C3_UnauthorizedRaises ==
    \A i \in DOMAIN inv :
        (HandlerFrame(i) /\ inv[i].status = 401) =>
            inv[i].out = Throw(AuthenticationError)

\* C3 witness: a 401 answer has been handled
C3_Witness ==
    \E i \in DOMAIN inv :
        /\ HandlerFrame(i) /\ inv[i].status = 401
        /\ inv[i].netCalls = 1
        /\ inv[i].out.tag = "throw"

\* C4: a handler whose remote call failed for any reason other than a 401
\* answer returns null
C4_OtherFailuresPass ==
    \A i \in DOMAIN inv :
        (HandlerFrame(i) /\ inv[i].failure # "" /\ inv[i].status # 401) =>
            inv[i].out = Return(NullVal)

\* C4 witness: the timeout aborted the call and the request passed
C4_Witness ==
    \E i \in DOMAIN inv :
        /\ HandlerFrame(i) /\ inv[i].aborted
        /\ inv[i].failure = AbortError
        /\ inv[i].out = Return(NullVal)

RefineFrame(i) == kind = "truelistEmail" /\ inv[i].pc = "done"
ValidateEmailFrame(i) == kind = "validateEmail" /\ inv[i].pc = "done"

\* verifyInline is waiting for the remote service
Waiting(i) == inv[i].pc \in {"fetch", "text", "json"}

\* C5: a verifyInline call always ends, even if the remote service never
\* answers: while it waits, its timer is armed for the configured timeout
\* (10000 ms when none is configured), and when the timer fires the call
\* ends with an error and without a classification result
C5_TimeoutEndsCall ==
    \A i \in InvIds :
        /\ [](Waiting(i) =>
                /\ inv[i].timer = "armed"
                /\ inv[i].timerMs = IF config.timeout = None THEN 10000
                                    ELSE config.timeout[1])
        /\ Waiting(i) ~> ~Waiting(i)
        /\ [](inv[i].aborted =>
                /\ inv[i].pc = "done"
                /\ inv[i].failure # ""
                /\ inv[i].result = NoResult
                /\ inv[i].out.val.type \notin {"ValidationResult",
                                               "NextResponse"})

\* C5 witness: the service stayed silent, the timer aborted the fetch and
\* validateFormSubmission raised the abort error
C5_Witness ==
    \E i \in DOMAIN inv :
        /\ kind = "validateFormSubmission" /\ inv[i].pc = "done"
        /\ inv[i].aborted /\ inv[i].status = 0
        /\ inv[i].timerMs = 10000
        /\ inv[i].out = Throw(AbortError)

\* C6: in the refinement, once the key is resolved, a failed validation
\* re-raises an AuthenticationError and makes the predicate return true for
\* any other error; no failure makes it return false
C6_RefineFailsOpen ==
    \A i \in DOMAIN inv :
        (RefineFrame(i) /\ inv[i].failure # "") =>
            IF inv[i].failure = AuthenticationError
            THEN inv[i].out = Throw(AuthenticationError)
            ELSE inv[i].out = Return(BoolVal(TRUE))

\* C6 witness: a network failure of the SDK call gave true
C6_Witness ==
    \E i \in DOMAIN inv :
        /\ RefineFrame(i) /\ inv[i].netCalls = 1
        /\ inv[i].failure = NetworkError
        /\ inv[i].out = Return(BoolVal(TRUE))

\* C7: when the validation succeeds with state s the refinement returns true
\* if and only if s is not in the configured rejectStates; without a
\* configured set, state "risky" gives true
C7_RefineTrueIffNotRejected ==
    \A i \in DOMAIN inv :
        (RefineFrame(i) /\ inv[i].result.state # None) =>
            /\ inv[i].out.tag = "return"
            /\ inv[i].out.val.type = "boolean"
            /\ created # None =>
                 inv[i].out.val.b =
                     (inv[i].result.state[1] \notin ToSet(created[1]))
            /\ (created = None
                    /\ inv[i].result.state = Some("risky")) =>
                 inv[i].out.val.b = TRUE

\* C7 witness: "risky" passed the default set and was refused by a
\* configured one
C7_Witness ==
    \E i \in DOMAIN inv :
        /\ RefineFrame(i)
        /\ inv[i].result.state = Some("risky")
        /\ config.rejectStates = Some(<<"email_invalid", "risky">>)
        /\ inv[i].out = Return(BoolVal(FALSE))

\* C8: truelistEmail() without rejectStates refuses an address whose
\* validation succeeded with state "email_invalid"
C8_RefineDefaultRefusesEmailInvalid ==
    \A i \in DOMAIN inv :
        ( /\ RefineFrame(i)
          /\ config.rejectStates = None
          /\ inv[i].result.state = Some("email_invalid") )
        => inv[i].out = Return(BoolVal(FALSE))

\* C9: whenever the SDK call of validateEmail fails, that same error reaches
\* the caller and no result is returned
C9_ValidateEmailPropagates ==
    \A i \in DOMAIN inv :
        (ValidateEmailFrame(i) /\ inv[i].failure # "") =>
            inv[i].out = Throw(inv[i].failure)

\* C9 witness: a failure that is not an authentication failure was raised
C9_Witness ==
    \E i \in DOMAIN inv :
        /\ ValidateEmailFrame(i) /\ inv[i].netCalls = 1
        /\ inv[i].failure = NetworkError
        /\ inv[i].out.tag = "throw"

C11_FlagsAsDocumented ==
    \A i \in DOMAIN inv :
        (ValidateEmailFrame(i) /\ inv[i].out.tag = "return") =>
            /\ inv[i].out.val.isValid = (inv[i].result.state = Some("ok"))
            /\ inv[i].out.val.isInvalid =
                   (inv[i].result.state = Some("email_invalid"))
            /\ inv[i].out.val.isDisposable =
                   (inv[i].result.subState = "is_disposable")
            /\ inv[i].out.val.isRole = (inv[i].result.subState = "is_role")

\* extractEmail has run to its end in invocation i
Extracted(i) ==
    /\ kind \in {"handler", "validateFormSubmission"}
    /\ inv[i].pc \notin {"idle", "extract"}
    /\ inv[i].apiKey # ""

\* the request of invocation i as the claims on extraction describe it
HeaderHas(i, piece) ==
    /\ inv[i].req.contentType # None
    /\ \E k \in DOMAIN inv[i].req.contentType[1] :
           inv[i].req.contentType[1][k] = piece
WantedField(i) ==
    IF config.fieldName = None THEN "email" ELSE config.fieldName[1]
FieldIfString(i) ==
    LET value == inv[i].req.body.fields[WantedField(i)]
    IN  IF value.t = "string" THEN Some(value.v) ELSE None

\* C12: extractEmail gives, for a JSON content type, the value at fieldName
\* if it is a string and null if it is missing or not a string; for a form
\* content type, the field if it is a string and null otherwise; for any
\* other or missing content type, null whatever the body is
C12_ExtractByContentType ==
    \A i \in DOMAIN inv :
        Extracted(i) =>
            LET json == HeaderHas(i, "application/json")
                multipart == HeaderHas(i, "multipart/form-data")
                urlencoded == HeaderHas(i, "application/x-www-form-urlencoded")
                fmt == inv[i].req.body.fmt
            IN  /\ (json /\ fmt = "json-object") =>
                      inv[i].email = FieldIfString(i)
                /\ (~json /\ multipart /\ fmt = "multipart") =>
                      inv[i].email = FieldIfString(i)
                /\ (~json /\ urlencoded /\ fmt = "urlencoded") =>
                      inv[i].email = FieldIfString(i)
                /\ (~json /\ ~multipart /\ ~urlencoded) =>
                      inv[i].email = None

\* C12 witness: a JSON body whose email field is a number gave null
C12_Witness ==
    \E i \in DOMAIN inv :
        /\ Extracted(i)
        /\ HeaderHas(i, "application/json")
        /\ inv[i].req.body = Body("json-object", Fields(Num, Str("c@d.co")))
        /\ config.fieldName = None
        /\ inv[i].bodyUsed
        /\ inv[i].email = None

\* the body of the request cannot be parsed as its content type announces
ParseFails(i) ==
    \/ HeaderHas(i, "application/json")
         /\ inv[i].req.body.fmt # "json-object"
    \/ ~HeaderHas(i, "application/json")
         /\ HeaderHas(i, "multipart/form-data")
         /\ inv[i].req.body.fmt # "multipart"

\* C13: extraction never raises (a body that fails to parse gives null), and
\* whenever it gives no email the handler and validateFormSubmission return
\* null without a network call
C13_AbsentPassesThrough ==
    \A i \in DOMAIN inv :
        Extracted(i) =>
            /\ ParseFails(i) => inv[i].email = None
            /\ inv[i].email = None =>
                 /\ inv[i].pc = "done"
                 /\ inv[i].out = Return(NullVal)
                 /\ inv[i].netCalls = 0

\* C13 witness: a JSON content type with a body that is not JSON
C13_Witness ==
    \E i \in DOMAIN inv :
        /\ HandlerFrame(i) /\ Extracted(i)
        /\ HeaderHas(i, "application/json")
        /\ inv[i].req.body.fmt = "malformed"
        /\ inv[i].bodyUsed
        /\ inv[i].out = Return(NullVal)

\* C14: whenever the handler denies, its response has status 422 and the
\* body {error: "Invalid email", details: {state, subState, suggestion}}
\* with the three values of the result of that invocation
C14_DenyPayloadEchoesResult ==
    \A i \in DOMAIN inv :
        (HandlerFrame(i) /\ inv[i].out.val.type = "NextResponse") =>
            /\ inv[i].out.tag = "return"
            /\ inv[i].out.val.status = 422
            /\ inv[i].out.val.body.error = "Invalid email"
            /\ inv[i].out.val.body.details.state = inv[i].result.state
            /\ inv[i].out.val.body.details.subState = inv[i].result.subState
            /\ inv[i].out.val.body.details.suggestion
                   = inv[i].result.suggestion
            /\ inv[i].result.state # None

\* C14 witness: a denied address with a suggestion
C14_Witness ==
    \E i \in DOMAIN inv :
        /\ HandlerFrame(i)
        /\ inv[i].result = Result(Some("email_invalid"), "failed_no_mailbox",
                                  Some("user@gmail.com"))
        /\ inv[i].out.val.type = "NextResponse"
        /\ inv[i].out.val.body.details.suggestion = Some("user@gmail.com")

MiddlewareFrame(i) == kind = "withEmailValidation" /\ inv[i].pc = "done"

\* C15: in a middleware built by withEmailValidation, a 401 answer of the
\* remote service reaches the caller as an error and is never turned into
\* NextResponse.next()
C15_MiddlewareUnauthorizedRaises ==
    \A i \in DOMAIN inv :
        (MiddlewareFrame(i) /\ inv[i].status = 401) =>
            /\ inv[i].out.tag = "throw"
            /\ inv[i].out.val # NextVal

\* the place of a program position in the handler's pipeline
Rank(pc) ==
    CASE pc = "idle" -> 0
      [] pc = "extract" -> 1
      [] pc = "fetch" -> 2
      [] pc \in {"text", "json"} -> 3
      [] OTHER -> 4

\* C16: an invocation of the handler goes through guard, credential, body
\* extraction, remote call and decision in this order and never back; the
\* remote call is issued at most once and only when extraction has given
\* an email, a 422 is decided only on a returned result, and the invocation
\* ends with one outcome that does not change
C16_StagesInOrder ==
    [][\A i \in DOMAIN inv :
         kind = "handler" =>
           /\ inv'[i].pc # inv[i].pc =>
                \/ Rank(inv'[i].pc) > Rank(inv[i].pc)
                \/ inv[i].pc = "done" /\ inv'[i].pc = "idle"
           /\ inv'[i].netCalls <= 1
           /\ inv'[i].netCalls > inv[i].netCalls =>
                /\ inv[i].pc = "extract"
                /\ ~Falsy(inv'[i].email)
           /\ inv'[i].apiKey # "" =>
                PathMatches(config.paths, inv'[i].req.pathname)
           /\ inv'[i].bodyUsed => inv'[i].apiKey # ""
           /\ inv'[i].out.val.type = "NextResponse" =>
                inv'[i].result # NoResult /\ inv'[i].netCalls = 1
           /\ (inv'[i].pc = "done") <=> (inv'[i].out.tag # "pending")
           /\ (inv[i].pc = "done" /\ inv'[i].pc = "done") =>
                inv'[i] = inv[i]]_vars

\* C16 witness: an invocation went through every stage and denied
C16_Witness ==
    \E i \in DOMAIN inv :
        /\ HandlerFrame(i)
        /\ inv[i].apiKey # "" /\ inv[i].bodyUsed /\ inv[i].email # None
        /\ inv[i].netCalls = 1 /\ inv[i].status = 200
        /\ inv[i].out.val.type = "NextResponse"

\* C17: when the timeout races with the answer, verifyInline settles with
\* exactly one of a complete result or an error; an abort that takes effect
\* while the call still waits leaves no result; once the call has settled
\* its timer is cleared and nothing changes the outcome
C17_TimeoutRaceSettlesOnce ==
    [][\A i \in DOMAIN inv :
         kind \in {"handler", "validateFormSubmission"} =>
           /\ (inv'[i].pc = "done" /\ inv'[i].netCalls = 1) =>
                /\ (inv'[i].result # NoResult) # (inv'[i].failure # "")
                /\ inv'[i].timer = "cleared"
           /\ inv'[i].result # NoResult =>
                ~inv'[i].aborted /\ inv'[i].status = 200
           /\ (inv'[i].aborted /\ ~inv[i].aborted) =>
                /\ inv[i].pc \in {"fetch", "text", "json"}
                /\ inv'[i].result = NoResult
                /\ inv'[i].failure # ""
           /\ (inv[i].pc = "done" /\ inv'[i].pc = "done") =>
                inv'[i] = inv[i]]_vars

\* C17 witness: the head of a 2xx answer had arrived when the timer fired
\* during the read of the body
C17_Witness ==
    \E i \in DOMAIN inv :
        /\ kind = "validateFormSubmission" /\ inv[i].pc = "done"
        /\ inv[i].status = 200 /\ inv[i].aborted
        /\ inv[i].timer = "cleared"
        /\ inv[i].result = NoResult
        /\ inv[i].out = Throw(AbortError)

\* what a settled handler frame must hold, read from that frame alone
SoloOutcome(frame) ==
    IF ~PathMatches(config.paths, frame.req.pathname) THEN Return(NullVal)
    ELSE IF frame.netCalls = 0 THEN Return(NullVal)
    ELSE IF frame.failure # ""
         THEN IF frame.status = 401 THEN Throw(AuthenticationError)
              ELSE Return(NullVal)
    ELSE IF frame.result.state # None
            /\ frame.result.state[1] \in BuiltRejection
         THEN Return(DenyResponse(frame.result))
    ELSE Return(NullVal)

\* C18: with two invocations of one handler in flight, a step of one leaves
\* the other untouched, a call is aborted by its own timer only, and each
\* outcome is the one its own request, answer and timer give
C18_InvocationsIndependent ==
    [][\A i \in DOMAIN inv :
         /\ inv'[i] # inv[i] =>
              \A j \in DOMAIN inv \ {i} : inv'[j] = inv[j]
         /\ (inv'[i].aborted /\ ~inv[i].aborted) => inv[i].timer = "armed"
         /\ inv'[i].pc = "done" => inv'[i].out = SoloOutcome(inv'[i])]_vars

\* C18 witness: the second call timed out and passed while the first one,
\* not aborted, still waits for its answer
C18_Witness ==
    /\ DOMAIN inv = ConcIds
    /\ inv["i1"].pc = "fetch" /\ inv["i1"].timer = "armed"
    /\ ~inv["i1"].aborted
    /\ inv["i2"].pc = "done" /\ inv["i2"].aborted
    /\ inv["i2"].out = Return(NullVal)

\* the invocation that starts in this step gets as far as the key
ResolvesKey(i) ==
    /\ Starts(i)
    /\ kind \in {"validateEmail", "validateFormSubmission", "handler",
                 "truelistEmail"}
    /\ kind = "handler" => PathMatches(config.paths, inv'[i].req.pathname)

\* C19: every invocation uses the configured apiKey if one is given,
\* whatever the environment holds, and otherwise the value TRUELIST_API_KEY
\* has when that invocation starts; the key of an earlier invocation plays
\* no part
C19_KeyResolvedPerInvocation ==
    [][\A i \in DOMAIN inv :
         ResolvesKey(i) =>
           LET expected == IF config.apiKey # None THEN config.apiKey
                           ELSE env
           IN  IF expected = None \/ expected[1] = ""
               THEN /\ inv'[i].out = Throw(MissingApiKey)
                    /\ inv'[i].apiKey = ""
               ELSE /\ inv'[i].apiKey = expected[1]
                    /\ inv'[i].out.tag # "throw"]_vars

\* C19 witness: a validator whose first call used the key of the
\* environment raises the missing-key error in its second call, after the
\* variable was removed
C19_Witness ==
    \E i \in DOMAIN inv :
        /\ kind = "validateEmail" /\ config.apiKey = None
        /\ calls = 2
        /\ inv[i].prevKey = "sk_env"
        /\ env = None
        /\ inv[i].out = Throw(MissingApiKey)

\* C20: the rejection set of an instance is fixed when it is created: no
\* invocation changes it, and a later change of the rejectStates array of
\* the config object does not change a decision
C20_RejectionSetFixedAtCreation ==
    /\ rejectedStates =
           CreatedRejectedStates(kind, [config EXCEPT !.rejectStates = created])
    /\ \A i \in DOMAIN inv :
         (created # None /\ inv[i].pc = "done" /\ inv[i].result.state # None)
         => LET rejected == inv[i].result.state[1] \in ToSet(created[1])
            IN  /\ kind = "handler" =>
                     (inv[i].out.val.type = "NextResponse") = rejected
                /\ kind = "truelistEmail" =>
                     inv[i].out = Return(BoolVal(~rejected))
                /\ kind = "validateEmail" =>
                     inv[i].out.val.isValid = ~rejected

\* an invocation of the handler that has started
HandlerCalled(i) == kind = "handler" /\ inv[i].pc # "idle"

\* the pathname of the request starts with one of the configured paths
PrefixConfigured(i) ==
    \E k \in DOMAIN config.paths :
        /\ Len(config.paths[k]) <= Len(inv[i].req.pathname)
        /\ \A n \in DOMAIN config.paths[k] :
             inv[i].req.pathname[n] = config.paths[k][n]

\* C21: a handler examines a request if and only if its pathname starts
\* with one of the configured paths: a request matching none ends with null,
\* no credential resolved (so no missing-key error), its body unread and no
\* network call; a matching one has its credential resolved or refused
C21_ExaminesIffPathMatches ==
    \A i \in DOMAIN inv :
        HandlerCalled(i) =>
            IF PrefixConfigured(i)
            THEN inv[i].apiKey # "" \/ inv[i].out = Throw(MissingApiKey)
            ELSE /\ inv[i].pc = "done"
                 /\ inv[i].out = Return(NullVal)
                 /\ inv[i].apiKey = ""
                 /\ ~inv[i].bodyUsed
                 /\ inv[i].netCalls = 0

\* C21 witness: with no key anywhere, a JSON POST to a path outside the
\* configured ones came back null, nothing raised and nothing read
C21_Witness ==
    \E i \in DOMAIN inv :
        /\ HandlerCalled(i) /\ ~PrefixConfigured(i)
        /\ config.apiKey = None /\ env = None
        /\ inv[i].req.method = "POST" /\ ReadsBody(inv[i].req)
        /\ inv[i].out = Return(NullVal)
        /\ ~inv[i].bodyUsed

\* C22: a request whose method is not POST is passed through by a handler
\* of createValidationHandler and by the middleware of withEmailValidation
\* with no credential resolved, no body read and no network call
C22_NonPostPassesUntouched ==
    \A i \in DOMAIN inv :
        ( /\ kind \in {"handler", "withEmailValidation"}
          /\ inv[i].pc # "idle"
          /\ inv[i].req.method # "POST" )
        => /\ inv[i].pc = "done"
           /\ inv[i].out = Return(IF kind = "handler" THEN NullVal
                                  ELSE NextVal)
           /\ inv[i].apiKey = ""
           /\ ~inv[i].bodyUsed
           /\ inv[i].netCalls = 0

\* C23: after a handler has returned null for a request it examined, the
\* body of the caller's request is still unconsumed
C23_BodyLeftUnconsumed ==
    \A i \in DOMAIN inv :
        ( /\ HandlerFrame(i)
          /\ PrefixConfigured(i)
          /\ inv[i].out = Return(NullVal) )
        => ~inv[i].bodyUsed

\* verifyInline has returned to its caller in this frame
VerifyInlineReturned(i) ==
    /\ kind \in {"handler", "validateFormSubmission"}
    /\ inv[i].pc = "done"
    /\ inv[i].netCalls > 0
    /\ inv[i].failure = ""

\* C24: verifyInline returns a result only for a well-formed 2xx answer; a
\* malformed 2xx body makes it fail, so a result it returns has a state
C24_ResultOnlyWhenWellFormed ==
    \A i \in DOMAIN inv :
        VerifyInlineReturned(i) =>
            /\ ResponseOk(inv[i].status)
            /\ inv[i].result.state # None

\* C25: an apiKey configured as the empty string is a missing credential and
\* is not replaced by TRUELIST_API_KEY: the invocation raises the missing-key
\* error before any network call, and no call is made with an empty key
C25_EmptyKeyIsMissing ==
    \A i \in DOMAIN inv :
        ( /\ kind \in {"validateEmail", "validateFormSubmission",
                       "handler", "truelistEmail"}
          /\ inv[i].pc # "idle" )
        => /\ inv[i].netCalls > 0 => inv[i].apiKey # ""
           /\ ( /\ config.apiKey = Some("")
                /\ kind = "handler" => PrefixConfigured(i) )
              => /\ inv[i].pc = "done"
                 /\ inv[i].out = Throw(MissingApiKey)
                 /\ inv[i].netCalls = 0

\* C25 witness: validateFormSubmission raised the missing-key error for
\* apiKey "" although the environment holds a key
C25_Witness ==
    \E i \in DOMAIN inv :
        /\ kind = "validateFormSubmission"
        /\ config.apiKey = Some("") /\ env = Some("sk_env")
        /\ inv[i].out = Throw(MissingApiKey)
        /\ inv[i].netCalls = 0

FormSubmissionFrame(i) ==
    kind = "validateFormSubmission" /\ inv[i].pc = "done"

\* the request of this frame holds no email, or an empty one
NoEmailInRequest(i) == Falsy(ExtractEmail(inv[i].req, FieldName(config)))

\* what validateFormSubmission does once it looks at the request
FormSubmissionSettles(i) ==
    IF NoEmailInRequest(i)
    THEN inv[i].out = Return(NullVal) /\ inv[i].netCalls = 0
    ELSE /\ inv[i].netCalls = 1
         /\ \/ inv[i].failure = ""
               /\ inv[i].out = Return(ResultVal(inv[i].result))
            \/ inv[i].failure # "" /\ inv[i].out = Throw(inv[i].failure)

\* C26 as stated: validateFormSubmission returns null exactly when the
\* request holds no email, and otherwise makes exactly one remote call and
\* returns its result or lets its error through
C26_NullExactlyWhenNoEmail ==
    \A i \in DOMAIN inv : FormSubmissionFrame(i) => FormSubmissionSettles(i)

\* C26 amended: validateFormSubmission resolves the credential first and
\* raises the missing-key error with the body unread and no network call;
\* once the credential is resolved it returns null exactly when the request
\* holds no email, and otherwise makes exactly one remote call and returns
\* its result or lets its error through, never null for a failed call
C26_FormSubmissionNeverFailsOpen ==
    \A i \in DOMAIN inv :
        FormSubmissionFrame(i) =>
            IF inv[i].apiKey = ""
            THEN /\ inv[i].out = Throw(MissingApiKey)
                 /\ ~inv[i].bodyUsed
                 /\ inv[i].netCalls = 0
            ELSE FormSubmissionSettles(i)

\* C26 witness: a remote call answered 500 reached the caller as an error
C26_Witness ==
    \E i \in DOMAIN inv :
        /\ FormSubmissionFrame(i)
        /\ ~NoEmailInRequest(i)
        /\ inv[i].status = 500 /\ inv[i].netCalls = 1
        /\ inv[i].out = Throw(ApiError)

====
